---- MODULE Spec2Model ----
(***************************************************************************)
(* Model of the ferrumgw2 API gateway: the route table (proxy.rs,          *)
(* build_router and matchit's Router), AppState::new, and the request      *)
(* pipeline of handle_request (server.rs).                                 *)
(*                                                                         *)
(* Strings are sequences of one-character strings, so that starts_with,    *)
(* slicing, format! and Uri parsing are computed as the code computes      *)
(* them.  Header names are atomic strings: the code only compares them.    *)
(***************************************************************************)
EXTENDS Integers, Sequences, FiniteSets, TLC

VARIABLES
    proxies,        \* the definition list handed to AppState::new (main.rs:63,82)
    app,            \* the AppState built from it: route table and client policy
    pc,             \* position of the handle_request invocation
    req,            \* the inbound request being handled
    matched,        \* the definition the router returned for it
    outbound,       \* the request handed to the outbound client
    dispatches,     \* calls of http_client.request / https_client.request for req
    backend_result, \* what the outbound client's future resolved to
    response,       \* what handle_request returned to the client
    conn,           \* the connection req arrived on: its listener and peer address
    waited,         \* milliseconds the dispatch in flight has been awaited
    srv,            \* run_server: its arguments, listeners, connections and position
    call            \* a startup function called on its own: arguments and result

vars == <<proxies, app, pc, req, matched, outbound, dispatches, backend_result, response, conn, waited, srv, call>>

\* Option: None, or Some(v) holding v.  A request, definition or response that
\* is absent is None as well.
None == [some |-> FALSE]

Some(v) == [some |-> TRUE, value |-> v]

----------------------------------------------------------------------------
(* Bounds of the model                                                      *)

\* longest definition list handed to build_router in the routing specification
MaxProxies == 2
\* most values one header name carries in a request or a backend response
MaxHeaderValues == 2

\* the longest a dispatch is followed while it awaits the backend, in ms
MaxWait == 5

\* connections followed on each listener
MaxConns == 3

\* PEM sections in a private-key file
MaxPemItems == 2

----------------------------------------------------------------------------
(* String helpers: str::starts_with, str::ends_with, slicing, to_string.    *)

starts_with(s, p) == Len(p) <= Len(s) /\ SubSeq(s, 1, Len(p)) = p

starts_with_char(s, c) == Len(s) > 0 /\ s[1] = c

ends_with_char(s, c) == Len(s) > 0 /\ s[Len(s)] = c

\* &s[n..]
SliceFrom(s, n) == SubSeq(s, n + 1, Len(s))

\* &s[..n]
SliceTo(s, n) == SubSeq(s, 1, n)

DigitChars == <<"0", "1", "2", "3", "4", "5", "6", "7", "8", "9">>

\* Display of an unsigned integer, as format!("{}", port) prints it
RECURSIVE to_string(_)
to_string(n) ==
    IF n < 10 THEN <<DigitChars[n + 1]>>
    ELSE to_string(n \div 10) \o <<DigitChars[(n % 10) + 1]>>

\* first index of s at or after `from` whose character is in `stops`, or Len(s)+1
RECURSIVE FindFrom(_, _, _)
FindFrom(s, from, stops) ==
    IF from > Len(s) THEN Len(s) + 1
    ELSE IF s[from] \in stops THEN from
    ELSE FindFrom(s, from + 1, stops)

----------------------------------------------------------------------------
(* ProxyDefinition and its serde defaults (proxy.rs:25-88)                  *)

default_backend_port == 80

default_backend_path == <<"/">>

default_strip_listen_path == FALSE

default_preserve_host_header == FALSE

default_backend_connect_timeout_ms == 3000

default_backend_read_timeout_ms == 30000

default_backend_write_timeout_ms == 30000

default_skip_certificate_verification == FALSE

ProxyDefinition(id, listen_path, backend_protocol, backend_host, backend_path, strip_listen_path, preserve_host_header) ==
    [ id                            |-> id,
      listen_path                   |-> listen_path,
      backend_protocol              |-> backend_protocol,
      backend_host                  |-> backend_host,
      backend_port                  |-> default_backend_port,
      backend_path                  |-> backend_path,
      strip_listen_path             |-> strip_listen_path,
      preserve_host_header          |-> preserve_host_header,
      backend_connect_timeout_ms    |-> default_backend_connect_timeout_ms,
      backend_read_timeout_ms       |-> default_backend_read_timeout_ms,
      backend_write_timeout_ms      |-> default_backend_write_timeout_ms,
      skip_certificate_verification |-> default_skip_certificate_verification ]

----------------------------------------------------------------------------
(* matchit::Router as build_router fills it and handle_request queries it.  *)
(* A route is a pattern of literal characters and ":name" parameters; a     *)
(* parameter runs to the next "/" of the pattern and matches one non-empty  *)
(* run of characters up to the next "/" of the path.  Router::at matches    *)
(* the WHOLE path: there is no prefix lookup (proxy_tests.rs:181-202).      *)

\* the pattern after its leading ":name"
AfterParam(pat) == SliceFrom(pat, FindFrom(pat, 1, {"/"}) - 1)

\* the name of the leading ":name"
ParamName(pat) == SubSeq(pat, 2, FindFrom(pat, 1, {"/"}) - 1)

\* the path after its first segment
AfterSegment(path) == SliceFrom(path, FindFrom(path, 1, {"/"}) - 1)

RECURSIVE route_matches(_, _)
route_matches(pat, path) ==
    IF pat = <<>> THEN path = <<>>
    ELSE IF pat[1] = ":" THEN
        /\ FindFrom(path, 1, {"/"}) > 1
        /\ route_matches(AfterParam(pat), AfterSegment(path))
    ELSE
        /\ path # <<>>
        /\ path[1] = pat[1]
        /\ route_matches(Tail(pat), Tail(path))

\* Of two patterns matching one path, the router walks the static child
\* before the parameter child: p wins if it is literal where q first has a
\* parameter.
RECURSIVE static_first(_, _)
static_first(p, q) ==
    IF p = <<>> \/ q = <<>> THEN FALSE
    ELSE IF p[1] = ":" /\ q[1] = ":" THEN static_first(AfterParam(p), AfterParam(q))
    ELSE IF p[1] = ":" THEN FALSE
    ELSE IF q[1] = ":" THEN TRUE
    ELSE static_first(Tail(p), Tail(q))

\* Router::insert refuses a route that is already there, and a parameter
\* where the tree already has a parameter of another name.
RECURSIVE insert_conflict(_, _)
insert_conflict(p, q) ==
    IF p = <<>> \/ q = <<>> THEN p = q
    ELSE IF p[1] = ":" /\ q[1] = ":" THEN
        \/ ParamName(p) # ParamName(q)
        \/ insert_conflict(AfterParam(p), AfterParam(q))
    ELSE IF p[1] = ":" \/ q[1] = ":" THEN FALSE
    ELSE p[1] = q[1] /\ insert_conflict(Tail(p), Tail(q))

\* Router::insert(&path, value)
RouterInsert(router, path, value) ==
    IF \E i \in 1..Len(router) : insert_conflict(router[i].pattern, path)
    THEN [ok |-> FALSE]
    ELSE [ok |-> TRUE, router |-> Append(router, [pattern |-> path, value |-> value])]

\* RouterAt with a lookup that also accepts a route that is a prefix of the path
RouterAt_prefix(router, path) ==
    LET hits == {i \in 1..Len(router) :
                    \/ route_matches(router[i].pattern, path)
                    \/ starts_with(path, router[i].pattern)}
    IN  IF hits = {} THEN [ok |-> FALSE]
        ELSE LET best == CHOOSE i \in hits :
                            \A j \in hits : Len(router[j].pattern) <= Len(router[i].pattern)
             IN  [ok |-> TRUE, value |-> router[best].value, pattern |-> router[best].pattern]

\* RouterAt with a lookup that returns the first inserted route that matches
RouterAt_first_inserted(router, path) ==
    LET hits == {i \in 1..Len(router) : route_matches(router[i].pattern, path)}
    IN  IF hits = {} THEN [ok |-> FALSE]
        ELSE LET best == CHOOSE i \in hits : \A j \in hits : i <= j
             IN  [ok |-> TRUE, value |-> router[best].value, pattern |-> router[best].pattern]

\* Router::at(path): Ok(matched) with matched.value, or Err
RouterAt(router, path) ==
    LET hits == {i \in 1..Len(router) : route_matches(router[i].pattern, path)}
    IN  IF hits = {} THEN [ok |-> FALSE]
        ELSE LET best == CHOOSE i \in hits :
                            \A j \in hits \ {i} :
                                static_first(router[i].pattern, router[j].pattern)
             IN  [ok |-> TRUE, value |-> router[best].value, pattern |-> router[best].pattern]

\* proxy.rs:204-208, the path build_router registers a definition under
route_path(proxy) ==
    IF ~starts_with_char(proxy.listen_path, "/")
    THEN <<"/">> \o proxy.listen_path
    ELSE proxy.listen_path

\* proxy.rs:202-220, the loop: `router` holds the definitions inserted so far
RECURSIVE build_router_from(_, _)
build_router_from(router, rest) ==
    IF rest = <<>> THEN [ok |-> TRUE, router |-> router]
    ELSE LET proxy == Head(rest)
             ins == RouterInsert(router, route_path(proxy), proxy)
         IN  IF ~ins.ok THEN [ok |-> FALSE, error |-> "RouterInsert"]
             ELSE build_router_from(ins.router, Tail(rest))

build_router(defs) == build_router_from(<<>>, defs)

\* AppState::new, proxy.rs:117-166
\* AppState_new whose https client skips verification only when every definition asks for it
AppState_new_all_skip(defs) ==
    LET built == build_router(defs)
    IN  IF ~built.ok THEN [ok |-> FALSE, error |-> built.error]
        ELSE [ ok |-> TRUE,
               router |-> built.router,
               https_skip_verification |->
                   \A i \in 1..Len(defs) : defs[i].skip_certificate_verification ]

AppState_new(defs) ==
    LET built == build_router(defs)
    IN  IF ~built.ok THEN [ok |-> FALSE, error |-> built.error]
        ELSE [ ok |-> TRUE,
               router |-> built.router,
               https_skip_verification |->
                   \E i \in 1..Len(defs) : defs[i].skip_certificate_verification ]

----------------------------------------------------------------------------
(* http::Uri as handle_request uses it: uri_string.parse::<Uri>() and the   *)
(* accessors of the parsed value.                                           *)

Letters == {"a", "b", "c", "d", "e", "f", "g", "h", "i", "j", "k", "l", "m",
            "n", "o", "p", "q", "r", "s", "t", "u", "v", "w", "x", "y", "z"}

Digits == {DigitChars[i] : i \in 1..10}

\* characters a scheme is made of
SchemeChars == Letters \cup Digits \cup {"+", "-", "."}

\* characters the parser accepts in authority, path and query; a space or a
\* control character is none of them
UriChars == Letters \cup Digits \cup
            {"/", ":", "?", "#", "+", "-", ".", "_", "=", "&", "*", ",", "@"}

AllIn(s, chars) == \A i \in 1..Len(s) : s[i] \in chars

Count(s, c) == Cardinality({i \in 1..Len(s) : s[i] = c})

\* Authority::parse, then PathAndQuery::from_shared, on what follows "://"
ParseAfterScheme(scheme, rest) ==
    LET authority_end == FindFrom(rest, 1, {"/", "?", "#"}) - 1
        authority == SliceTo(rest, authority_end)
        tail == SliceFrom(rest, authority_end)
        fragment == FindFrom(tail, 1, {"#"})
        path_and_query == SliceTo(tail, fragment - 1)
        question == FindFrom(path_and_query, 1, {"?"})
        path == SliceTo(path_and_query, question - 1)
    IN  IF \/ ~AllIn(authority, UriChars)
           \/ Count(authority, ":") > 1
           \/ Count(authority, "@") > 0
           \/ authority_end = 0
           \/ ~AllIn(path_and_query, UriChars)
        THEN [ok |-> FALSE]
        ELSE [ ok        |-> TRUE,
               scheme    |-> scheme,
               authority |-> authority,
               \* Uri::path() of an absolute URI with no path is "/"
               path      |-> IF path = <<>> THEN <<"/">> ELSE path,
               \* Uri::query(): None without "?", else what follows it
               query     |-> IF question > Len(path_and_query) THEN None
                             ELSE Some(SliceFrom(path_and_query, question)) ]

\* first index of s at or after `from` whose character is not in `chars`
RECURSIVE FindNotIn(_, _, _)
FindNotIn(s, from, chars) ==
    IF from > Len(s) THEN Len(s) + 1
    ELSE IF s[from] \notin chars THEN from
    ELSE FindNotIn(s, from + 1, chars)

\* str::parse::<Uri>() (Uri::from_shared, parse_full) of a string that holds
\* "://": the scheme is what precedes the first character that is no scheme
\* character, if "://" starts there.  Without a scheme the string would have
\* to be an authority alone, which a string holding "/" is not.
ParseUri(s) ==
    LET colon == FindNotIn(s, 1, SchemeChars)
    IN  IF /\ colon + 2 <= Len(s)
           /\ SubSeq(s, colon, colon + 2) = <<":", "/", "/">>
        THEN ParseAfterScheme(SliceTo(s, colon - 1), SliceFrom(s, colon + 2))
        ELSE [ok |-> FALSE]

----------------------------------------------------------------------------
(* http::HeaderMap and HeaderValue.  A map is a function from header name   *)
(* to the sequence of values held under it; iteration yields one (name,     *)
(* value) pair per value, the values of one name in order.                  *)

HopByHopRequest == {"connection", "keep-alive", "proxy-connection",
                    "transfer-encoding", "upgrade"}

HopByHopResponse == {"connection", "keep-alive", "transfer-encoding"}

HeaderOrder == <<"connection", "keep-alive", "proxy-connection", "transfer-encoding",
                 "upgrade", "host", "x-forwarded-for", "x-forwarded-proto",
                 "x-forwarded-host", "x-proxy-id", "set-cookie", "accept">>

HeaderNames == {HeaderOrder[i] : i \in 1..Len(HeaderOrder)}

\* HeaderMap::new()
EmptyHeaders == [n \in HeaderNames |-> <<>>]

\* HeaderMap::insert: the value replaces every value held under the name
HeaderInsert(headers, name, value) == [headers EXCEPT ![name] = <<value>>]

\* HeaderMap::contains_key
contains_key(headers, name) == headers[name] # <<>>

\* HeaderMap::get: the first value under the name
HeaderGet(headers, name) ==
    IF headers[name] = <<>> THEN None ELSE Some(headers[name][1])

\* the (name, value) pairs a `for (name, value) in headers` loop visits
RECURSIVE HeaderEntriesFrom(_, _)
HeaderEntriesFrom(headers, k) ==
    IF k > Len(HeaderOrder) THEN <<>>
    ELSE [i \in 1..Len(headers[HeaderOrder[k]]) |->
              <<HeaderOrder[k], headers[HeaderOrder[k]][i]>>]
         \o HeaderEntriesFrom(headers, k + 1)

HeaderEntries(headers) == HeaderEntriesFrom(headers, 1)

\* bytes HeaderValue::from_str accepts: visible ASCII, space and tab
HeaderValueChars == UriChars \cup {" ", "\t"}

\* HeaderValue::from_str(s).unwrap_or_else(|_| HeaderValue::from_static(fallback))
HeaderValueOr(s, fallback) == IF AllIn(s, HeaderValueChars) THEN s ELSE fallback

\* HeaderValue::to_str().unwrap_or(fallback): a value that holds a byte
\* outside visible ASCII has no str form
to_str_or(value, fallback) ==
    IF AllIn(value, HeaderValueChars) THEN value ELSE fallback

Unknown == <<"u", "n", "k", "n", "o", "w", "n">>

Localhost == <<"1", "2", "7", ".", "0", ".", "0", ".", "1">>

----------------------------------------------------------------------------
(* handle_request, server.rs:20-236                                         *)

\* path_to_forward that leaves backend_path out when nothing is stripped
path_to_forward_bare(proxy, request_path) ==
    IF proxy.strip_listen_path /\ starts_with(request_path, proxy.listen_path)
    THEN proxy.backend_path \o SliceFrom(request_path, Len(proxy.listen_path))
    ELSE request_path

\* path_to_forward that drops the whole matched path whenever strip_listen_path is set
path_to_forward_strip_matched(proxy, request_path) ==
    IF proxy.strip_listen_path
    THEN IF starts_with(request_path, proxy.listen_path)
         THEN proxy.backend_path \o SliceFrom(request_path, Len(proxy.listen_path))
         ELSE proxy.backend_path
    ELSE proxy.backend_path \o request_path

\* path_to_forward that joins backend_path and the rest as they are
path_to_forward_concat(proxy, request_path) ==
    IF proxy.strip_listen_path /\ starts_with(request_path, proxy.listen_path)
    THEN proxy.backend_path \o SliceFrom(request_path, Len(proxy.listen_path))
    ELSE proxy.backend_path \o request_path

\* server.rs:44-68
path_to_forward(proxy, request_path) ==
    IF proxy.strip_listen_path THEN
        IF starts_with(request_path, proxy.listen_path) THEN
            LET remaining_path == SliceFrom(request_path, Len(proxy.listen_path))
            IN  IF remaining_path = <<>> THEN proxy.backend_path
                ELSE IF /\ ends_with_char(proxy.backend_path, "/")
                        /\ starts_with_char(remaining_path, "/")
                THEN SliceTo(proxy.backend_path, Len(proxy.backend_path) - 1)
                         \o remaining_path
                ELSE IF /\ ~ends_with_char(proxy.backend_path, "/")
                        /\ ~starts_with_char(remaining_path, "/")
                THEN proxy.backend_path \o <<"/">> \o remaining_path
                ELSE proxy.backend_path \o remaining_path
        ELSE proxy.backend_path \o request_path
    ELSE proxy.backend_path \o request_path

\* server.rs:71
query_string(query) == IF query.some THEN <<"?">> \o query.value ELSE <<>>

\* uri_string without the port
uri_string_no_port(proxy, request) ==
    proxy.backend_protocol \o <<":", "/", "/">> \o proxy.backend_host
        \o proxy.backend_path \o request.path
        \o (IF request.query.some THEN <<"?">> \o request.query.value ELSE <<>>)

\* server.rs:74-81
uri_string(proxy, request) ==
    proxy.backend_protocol \o <<":", "/", "/">> \o proxy.backend_host \o <<":">>
        \o to_string(proxy.backend_port)
        \o path_to_forward(proxy, request.path)
        \o query_string(request.query)

\* is_hop_by_hop that forgets upgrade
is_hop_by_hop_no_upgrade(name) ==
    name \in {"connection", "keep-alive", "proxy-connection", "transfer-encoding"}

\* server.rs:106-107
is_hop_by_hop(name) == name \in HopByHopRequest

\* copy_request_headers that forwards the inbound host whatever the definition says
RECURSIVE copy_request_headers_keep_host(_, _, _)
copy_request_headers_keep_host(entries, headers, proxy) ==
    IF entries = <<>> THEN headers
    ELSE IF Head(entries)[1] \in HopByHopRequest
    THEN copy_request_headers_keep_host(Tail(entries), headers, proxy)
    ELSE copy_request_headers_keep_host(
             Tail(entries), HeaderInsert(headers, Head(entries)[1], Head(entries)[2]), proxy)

\* server.rs:104-118, the loop over the inbound headers
RECURSIVE copy_request_headers(_, _, _)
copy_request_headers(entries, headers, proxy) ==
    IF entries = <<>> THEN headers
    ELSE LET name == Head(entries)[1]
             value == Head(entries)[2]
         IN  IF is_hop_by_hop(name)
             THEN copy_request_headers(Tail(entries), headers, proxy)
             ELSE IF name = "host" /\ ~proxy.preserve_host_header
             THEN copy_request_headers(Tail(entries), headers, proxy)
             ELSE copy_request_headers(Tail(entries),
                                       HeaderInsert(headers, name, value), proxy)

\* server.rs:121-126
set_backend_host(headers, proxy) ==
    IF ~proxy.preserve_host_header /\ ~contains_key(headers, "host")
    THEN HeaderInsert(headers, "host",
             HeaderValueOr(proxy.backend_host \o <<":">> \o to_string(proxy.backend_port),
                           Unknown))
    ELSE headers

\* server.rs:129-138
set_forwarded_for(headers, request) ==
    IF HeaderGet(request.headers, "x-forwarded-for").some
    THEN HeaderInsert(headers, "x-forwarded-for",
             HeaderValueOr(to_str_or(HeaderGet(request.headers, "x-forwarded-for").value, <<>>)
                               \o <<",", " ">> \o Localhost,
                           Localhost))
    ELSE HeaderInsert(headers, "x-forwarded-for", Localhost)

\* server.rs:141
set_forwarded_proto(headers) ==
    HeaderInsert(headers, "x-forwarded-proto", <<"h", "t", "t", "p">>)

\* server.rs:144-148
set_forwarded_host(headers, request) ==
    IF ~contains_key(headers, "x-forwarded-host")
          /\ HeaderGet(request.headers, "host").some
    THEN HeaderInsert(headers, "x-forwarded-host", HeaderGet(request.headers, "host").value)
    ELSE headers

\* server.rs:102-148, the header set of the forwarded request
forwarded_headers(proxy, request) ==
    set_forwarded_host(
        set_forwarded_proto(
            set_forwarded_for(
                set_backend_host(
                    copy_request_headers(HeaderEntries(request.headers),
                                         EmptyHeaders, proxy),
                    proxy),
                request)),
        request)

\* server.rs:96-100 and 151, the request handed to the client
forwarded_req(proxy, request, uri) ==
    [ method  |-> request.method,
      version |-> request.version,
      uri     |-> uri,
      headers |-> forwarded_headers(proxy, request) ]

\* server.rs:163-172
client_for(proxy) ==
    IF proxy.backend_protocol = <<"h", "t", "t", "p", "s">>
    THEN "https_client" ELSE "http_client"

\* server.rs:189-195, the loop over the backend response's headers
RECURSIVE copy_response_headers(_, _)
copy_response_headers(entries, headers) ==
    IF entries = <<>> THEN headers
    ELSE LET name == Head(entries)[1]
             value == Head(entries)[2]
         IN  IF name \in HopByHopResponse
             THEN copy_response_headers(Tail(entries), headers)
             ELSE copy_response_headers(Tail(entries), HeaderInsert(headers, name, value))

\* set_proxy_id that appends to what the backend sent instead of replacing it
set_proxy_id_append(headers, proxy) ==
    [headers EXCEPT !["x-proxy-id"] = Append(@, HeaderValueOr(proxy.id, Unknown))]

\* server.rs:198-200
set_proxy_id(headers, proxy) ==
    HeaderInsert(headers, "x-proxy-id", HeaderValueOr(proxy.id, Unknown))

\* server.rs:176-212, the response relayed for a backend response
relay_response(proxy, backend_response) ==
    [ status  |-> backend_response.status,
      headers |-> set_proxy_id(
                      copy_response_headers(HeaderEntries(backend_response.headers),
                                            EmptyHeaders),
                      proxy),
      body    |-> backend_response.body ]

\* server.rs:217-220
bad_gateway(e) ==
    [ status  |-> 502,
      headers |-> EmptyHeaders,
      body    |-> <<"Failed to forward request to backend: ", e>> ]

\* uri_failure answered as a gateway error
uri_failure_as_bad_gateway ==
    [ status  |-> 502,
      headers |-> [n \in HeaderNames |-> <<>>],
      body    |-> "Failed to construct target URI" ]

\* server.rs:89-92
uri_failure ==
    [ status  |-> 500,
      headers |-> EmptyHeaders,
      body    |-> "Failed to construct target URI" ]

\* server.rs:230-233
route_not_found ==
    [ status  |-> 404,
      headers |-> EmptyHeaders,
      body    |-> "Route Not Found" ]

NoDispatch == [http_client |-> 0, https_client |-> 0]

\* server.rs:20-172: a request enters handle_request, which runs up to its
\* one suspension point, the outbound client's future, or returns before it
HandleRequest(request) ==
    /\ app.ok
    /\ pc = "idle"
    /\ req' = request
    /\ backend_result' = None
    /\ LET found == RouterAt(app.router, request.path)
       IN  IF ~found.ok THEN
               /\ matched' = None
               /\ outbound' = None
               /\ dispatches' = NoDispatch
               /\ response' = route_not_found
               /\ pc' = "done"
           ELSE
               LET proxy == found.value
                   uri == ParseUri(uri_string(proxy, request))
               IN  /\ matched' = proxy
                   /\ IF ~uri.ok THEN
                          /\ outbound' = None
                          /\ dispatches' = NoDispatch
                          /\ response' = uri_failure
                          /\ pc' = "done"
                      ELSE
                          /\ outbound' = forwarded_req(proxy, request, uri)
                          /\ dispatches' = [NoDispatch EXCEPT ![client_for(proxy)] = 1]
                          /\ response' = None
                          /\ pc' = "awaiting"
    /\ UNCHANGED <<proxies, app, conn, waited, srv, call>>

\* server.rs:164-171, a millisecond passes while `.request(forwarded_req).await`
\* is pending: neither client (proxy.rs:123, 147, 157) is given a deadline,
\* so nothing but the backend ends the wait
Tick ==
    /\ pc = "awaiting"
    /\ waited < MaxWait
    /\ waited' = waited + 1
    /\ UNCHANGED <<proxies, app, pc, req, matched, outbound, dispatches, backend_result, response, conn, srv, call>>

\* the client a dispatch in flight went through
client_in_use == IF dispatches.https_client > 0 THEN "https_client" ELSE "http_client"

\* hyper's connectors: Client::new() connects http only, the https_only()
\* connector https only (proxy.rs:121, 141-158)
client_connects(client, scheme) ==
    \/ client = "http_client" /\ scheme = <<"h", "t", "t", "p">>
    \/ client = "https_client" /\ scheme = <<"h", "t", "t", "p", "s">>

\* server.rs:175-212: the client's future resolves to Ok(backend_response)
DispatchOk(backend_response) ==
    /\ pc = "awaiting"
    /\ client_connects(client_in_use, outbound.uri.scheme)
    /\ backend_result' = [ok |-> TRUE, response |-> backend_response]
    /\ response' = relay_response(matched, backend_response)
    /\ pc' = "done"
    /\ waited' = 0
    /\ UNCHANGED <<proxies, app, req, matched, outbound, dispatches, conn, srv, call>>

\* DispatchErr that sends the request to the backend a second time
DispatchErr_retry(e) ==
    /\ pc = "awaiting"
    /\ dispatches[client_in_use] < 2
    /\ dispatches' = [dispatches EXCEPT ![client_in_use] = @ + 1]
    /\ UNCHANGED <<proxies, app, pc, req, matched, outbound, backend_result, response, conn, waited, srv, call>>

\* server.rs:213-221: the client's future resolves to Err(e)
DispatchErr(e) ==
    /\ pc = "awaiting"
    /\ backend_result' = [ok |-> FALSE, error |-> e]
    /\ response' = bad_gateway(e)
    /\ pc' = "done"
    /\ waited' = 0
    /\ UNCHANGED <<proxies, app, req, matched, outbound, dispatches, conn, srv, call>>

\* Respond that drops the route table once the response is out
Respond_clears_routes ==
    /\ pc = "done"
    /\ pc' = "idle"
    /\ req' = None
    /\ matched' = None
    /\ outbound' = None
    /\ dispatches' = NoDispatch
    /\ backend_result' = None
    /\ response' = None
    /\ app' = [app EXCEPT !.router = <<>>]
    /\ UNCHANGED <<proxies, conn, waited, srv, call>>

\* server.rs:257-266: the response is handed back to hyper, and the service
\* of the connection is called again for its next request
Respond ==
    /\ pc = "done"
    /\ pc' = "idle"
    /\ req' = None
    /\ matched' = None
    /\ outbound' = None
    /\ dispatches' = NoDispatch
    /\ backend_result' = None
    /\ response' = None
    /\ UNCHANGED <<proxies, app, conn, waited, srv, call>>

----------------------------------------------------------------------------
(* Inputs: the definitions, requests and backend outcomes the model draws.  *)

Http == <<"h", "t", "t", "p">>

Https == <<"h", "t", "t", "p", "s">>

\* a literal path, a parameterized one, and one written without its slash
ListenPaths == { <<"/", "a">>, <<"/", "r", "/", ":", "p">>, <<"a">> }

\* a host name, and one that no URI can hold
BackendHosts == { <<"h">>, <<"h", " ", "h">> }

BackendPaths == { <<"/">>, <<"/", "b">> }

\* an identifier, and one that no header value can hold
ProxyIds == { <<"x">>, <<"x", "\n">> }

Definitions ==
    { ProxyDefinition(id, lp, proto, host, bp, strip, preserve) :
        id \in ProxyIds, lp \in ListenPaths, proto \in {Http, Https},
        host \in BackendHosts, bp \in BackendPaths,
        strip \in BOOLEAN, preserve \in BOOLEAN }

\* the definition lists of the request pipeline's specification: the pipeline
\* reads the table only through the one definition it matched
Configs == { <<>> } \cup { <<d>> : d \in Definitions }

RequestPaths == { <<"/", "a">>, <<"/", "a", "/", "b">>, <<"/", "r", "/", "t">>, <<"/", "z">> }

\* no query, a bare "?", and a query
Queries == { None, Some(<<>>), Some(<<"q", "=", "1">>) }

\* the i-th value carried under one header name
HeaderValueNo(i) == <<"v", DigitChars[i + 1]>>

HeaderValuesUpTo(k) == [i \in 1..k |-> HeaderValueNo(i)]

\* header maps: none, one name with 1..MaxHeaderValues values, every name
HeaderMaps(names) ==
    { EmptyHeaders }
    \cup { [EmptyHeaders EXCEPT ![n] = HeaderValuesUpTo(k)] :
              n \in names, k \in 1..MaxHeaderValues }
    \cup { [n \in HeaderNames |-> IF n \in names THEN HeaderValuesUpTo(1) ELSE <<>>] }

InboundHeaderNames == HopByHopRequest \cup
    {"host", "x-forwarded-for", "x-forwarded-host", "accept"}

Requests ==
    [ method  : {"GET"},
      version : {"HTTP/1.1"},
      path    : RequestPaths,
      query   : Queries,
      headers : HeaderMaps(InboundHeaderNames) ]

BackendHeaderNames == HopByHopResponse \cup {"x-proxy-id", "set-cookie"}

BackendResponses ==
    [ status  : {200, 503},
      headers : HeaderMaps(BackendHeaderNames),
      body    : {"ok"} ]

\* hyper::Error of a dispatch
DispatchErrors == {"connection refused", "timeout", "tls failure", "malformed response"}

----------------------------------------------------------------------------
(* The request pipeline: AppState::new on a definition list, then requests  *)
(* handled one after the other.                                             *)

\* a connection of the plain listener (server.rs:248-268)
PlainConn == [listener |-> Http, remote_addr |-> <<"1", "0", ".", "0", ".", "0", ".", "9">>]

\* run_server not modelled: the pipeline is driven request by request
NoServer == [pc |-> "none"]

InitPipeline(configs, conns) ==
    /\ proxies \in configs
    /\ conn \in conns
    /\ waited = 0
    /\ app = AppState_new(proxies)
    /\ pc = "idle"
    /\ req = None
    /\ matched = None
    /\ outbound = None
    /\ dispatches = NoDispatch
    /\ backend_result = None
    /\ response = None

\* no startup function is examined on its own
NoCall == [fn |-> "none"]

InitWithConn(configs, conns) ==
    InitPipeline(configs, conns) /\ srv = NoServer /\ call = NoCall

InitWith(configs) == InitWithConn(configs, {PlainConn})

Init == InitWith(Configs)

Serve == \E request \in Requests : HandleRequest(request)

BackendResponds == \E backend_response \in BackendResponses : DispatchOk(backend_response)

BackendFails == \E e \in DispatchErrors : DispatchErr(e)

Next == Serve \/ BackendResponds \/ BackendFails \/ Respond

Spec == Init /\ [][Next]_vars

----------------------------------------------------------------------------
(* The route table: AppState::new on lists of up to MaxProxies definitions  *)
(* that differ in listen_path, then lookups through handle_request.         *)

RouteListenPaths ==
    << <<"/", "a">>, <<"/", "a", "/", "b">>, <<"/", "a", "/", ":", "p">>,
       <<"a">>, <<"/", ":", "p">> >>

RouteDefinitions ==
    { [ ProxyDefinition(<<"p", DigitChars[i + 1]>>, RouteListenPaths[i], Http, <<"h">>,
                        <<"/", "b">>, default_strip_listen_path,
                        default_preserve_host_header)
        EXCEPT !.skip_certificate_verification = skip ] :
        i \in 1..Len(RouteListenPaths), skip \in BOOLEAN }

RECURSIVE ListsUpTo(_, _)
ListsUpTo(S, n) ==
    IF n = 0 THEN { <<>> }
    ELSE ListsUpTo(S, n - 1)
         \cup { Append(l, x) : l \in {m \in ListsUpTo(S, n - 1) : Len(m) = n - 1}, x \in S }

RouteConfigs == ListsUpTo(RouteDefinitions, MaxProxies)

RouteRequestPaths ==
    { <<"/", "a">>, <<"/", "a", "/", "b">>, <<"/", "a", "/", "b", "/", "c">>,
      <<"/", "a", "/">>, <<"/", "z">>, <<"/">> }

RouteRequests ==
    [ method  : {"GET"},
      version : {"HTTP/1.1"},
      path    : RouteRequestPaths,
      query   : {None},
      headers : {EmptyHeaders} ]

InitRoute == InitWith(RouteConfigs)

ServeRoute == \E request \in RouteRequests : HandleRequest(request)

BackendRespondsRoute ==
    DispatchOk([status |-> 200, headers |-> EmptyHeaders, body |-> "ok"])

BackendFailsRoute == DispatchErr("connection refused")

NextRoute == ServeRoute \/ BackendRespondsRoute \/ BackendFailsRoute \/ Respond

SpecRoute == InitRoute /\ [][NextRoute]_vars

----------------------------------------------------------------------------
(* The forwarding headers: requests that arrive on connections of either    *)
(* listener, from a remote peer or from the gateway's own host.             *)

\* the peer addresses AddrStream::remote_addr reports (server.rs:249, 297)
RemoteAddrs == { <<"1", "0", ".", "0", ".", "0", ".", "9">>, Localhost }

\* connections of the plain listener (server.rs:248-268) and of the TLS
\* listener (server.rs:297-332)
Conns == [listener : {Http, Https}, remote_addr : RemoteAddrs]

\* a backend_protocol that is neither http nor https
Ftp == <<"f", "t", "p">>

ForwardConfigs ==
    { << ProxyDefinition(<<"x">>, <<"/", "a">>, proto, <<"h">>, <<"/">>,
                         default_strip_listen_path, preserve) >> :
        proto \in {Http, Https, Ftp}, preserve \in BOOLEAN }

\* http::Version::default(), what Request::builder() carries when no
\* version is set on it
default_version == "HTTP/1.1"

ForwardRequests ==
    [ method  : {"GET", "POST"},
      version : {"HTTP/1.0", "HTTP/1.1", "HTTP/2.0"},
      path    : { <<"/", "a">>, <<"/", "z">> },
      query   : {None},
      headers : HeaderMaps({"x-forwarded-for", "host"}) ]

InitForward == InitWithConn(ForwardConfigs, Conns)

ServeForward == \E request \in ForwardRequests : HandleRequest(request)

NextForward == ServeForward \/ BackendRespondsRoute \/ BackendFailsRoute \/ Respond

SpecForward == InitForward /\ [][NextForward]_vars

----------------------------------------------------------------------------
(* Backend deadlines: definitions with short timeouts, and time passing     *)
(* while a dispatch is in flight.                                           *)

\* backend_connect_timeout_ms and backend_read_timeout_ms of the definitions
TimeoutsMs == {1, 2}

TimeoutConfigs ==
    { << [ ProxyDefinition(<<"x">>, <<"/", "a">>, proto, <<"h">>, <<"/">>,
                           default_strip_listen_path, default_preserve_host_header)
           EXCEPT !.backend_connect_timeout_ms = ct,
                  !.backend_read_timeout_ms = rt,
                  !.backend_write_timeout_ms = rt ] >> :
        proto \in {Http, Https}, ct \in TimeoutsMs, rt \in TimeoutsMs }

InitTimeout == InitWith(TimeoutConfigs)

NextTimeout == ServeForward \/ BackendRespondsRoute \/ BackendFailsRoute \/ Tick \/ Respond

SpecTimeout == InitTimeout /\ [][NextTimeout]_vars

----------------------------------------------------------------------------
(* run_server, server.rs:239-386: the plain listener with graceful          *)
(* shutdown, the optional TLS accept loop with one task per connection.     *)

\* the variables run_server's steps leave alone
pipeline == <<proxies, app, pc, req, matched, outbound, dispatches, backend_result, response, conn, waited, call>>

ConnIds == 1..MaxConns

\* TLS_CERT_PATH / TLS_KEY_PATH: unset, empty, or a path
TlsEnvValues == { None, Some(<<>>), Some(<<"f">>) }

\* config.rs:65-80 and 105-114: unset and empty both give None
tls_path_from_env(v) ==
    IF ~v.some THEN None
    ELSE IF v.value = <<>> THEN None
    ELSE Some(v.value)

\* Result<(), GatewayError>: Ok(()) and Err of a GatewayError variant (error.rs:5-32)
Ok == [ok |-> TRUE]

Err(variant) == [ok |-> FALSE, error |-> variant]

\* run_server is about to run with the paths from_env produced
ServerStart(cert_env, key_env) ==
    [ pc                  |-> "start",
      tls_cert_path       |-> tls_path_from_env(cert_env),
      tls_key_path        |-> tls_path_from_env(key_env),
      tls_files_read      |-> FALSE,
      http_listener       |-> "none",
      https_listener      |-> "none",
      https_server        |-> "none",
      http_conns          |-> [c \in ConnIds |-> "none"],
      https_conns         |-> [c \in ConnIds |-> "none"],
      signal              |-> FALSE,
      in_flight_at_signal |-> {},
      http_server_error   |-> FALSE,
      result              |-> None ]

\* the process is running run_server
Alive == srv.pc \in {"serving", "draining", "stopped", "joined"}

\* StartServers that configures TLS as soon as either path is given
StartServers_either(tls_load_ok, https_bind_ok) ==
    /\ srv.pc = "start"
    /\ IF srv.tls_cert_path.some \/ srv.tls_key_path.some THEN
           IF tls_load_ok /\ https_bind_ok
           THEN srv' = [srv EXCEPT !.pc = "serving", !.http_listener = "open",
                                   !.tls_files_read = TRUE,
                                   !.https_listener = "open",
                                   !.https_server = "accepting"]
           ELSE srv' = [srv EXCEPT !.pc = "failed", !.http_listener = "closed",
                                   !.tls_files_read = TRUE,
                                   !.result = Err(IF tls_load_ok THEN "Io" ELSE "TlsConfig")]
       ELSE srv' = [srv EXCEPT !.pc = "serving", !.http_listener = "open"]
    /\ UNCHANGED pipeline

\* server.rs:243-356: bind the plain listener; with both paths given, load the
\* TLS files, bind the TLS listener and spawn the accept loop, and return the
\* error (dropping the plain server) if either step fails
StartServers(tls_load_ok, https_bind_ok) ==
    /\ srv.pc = "start"
    /\ IF srv.tls_cert_path.some /\ srv.tls_key_path.some THEN
           IF tls_load_ok /\ https_bind_ok
           THEN srv' = [srv EXCEPT !.pc = "serving", !.http_listener = "open",
                                   !.tls_files_read = TRUE,
                                   !.https_listener = "open",
                                   !.https_server = "accepting"]
           ELSE srv' = [srv EXCEPT !.pc = "failed", !.http_listener = "closed",
                                   !.tls_files_read = TRUE,
                                   !.result = Err(IF tls_load_ok THEN "Io" ELSE "TlsConfig")]
       ELSE srv' = [srv EXCEPT !.pc = "serving", !.http_listener = "open"]
    /\ UNCHANGED pipeline

\* server.rs:248-268 under 370: the plain server accepts a connection and
\* its request enters handle_request
HttpAccept(c) ==
    /\ srv.pc = "serving"
    /\ srv.http_listener = "open"
    /\ srv.http_conns[c] = "none"
    /\ srv' = [srv EXCEPT !.http_conns[c] = "in_flight"]
    /\ UNCHANGED pipeline

\* server.rs:261: handle_request's response is written to the connection
HttpRespond(c) ==
    /\ Alive
    /\ srv.http_conns[c] = "in_flight"
    /\ srv' = [srv EXCEPT !.http_conns[c] = "responded"]
    /\ UNCHANGED pipeline

\* server.rs:359-364: ctrl_c() resolves, with the signal (Ok) or with an error
\* of the signal handler (Err); either way graceful shutdown begins and the
\* plain listener is dropped
Shutdown(ctrl_c_ok) ==
    /\ srv.pc = "serving"
    /\ srv' = [srv EXCEPT !.pc = "draining",
                          !.http_listener = "closed",
                          !.signal = ctrl_c_ok,
                          !.in_flight_at_signal =
                              IF ctrl_c_ok
                              THEN {c \in ConnIds : srv.http_conns[c] = "in_flight"}
                              ELSE {}]
    /\ UNCHANGED pipeline

\* HttpDrained that does not wait for the requests in flight
HttpDrained_no_wait ==
    /\ srv.pc = "draining"
    /\ srv' = [srv EXCEPT !.pc = "stopped"]
    /\ UNCHANGED pipeline

\* server.rs:370: the graceful server future resolves once every connection
\* has finished its request
HttpDrained ==
    /\ srv.pc = "draining"
    /\ \A c \in ConnIds : srv.http_conns[c] # "in_flight"
    /\ srv' = [srv EXCEPT !.pc = "stopped"]
    /\ UNCHANGED pipeline

\* server.rs:370-372: the plain server future ends with an error before any
\* shutdown; its connection tasks stay with the runtime
HttpServerFails ==
    /\ srv.pc = "serving"
    /\ srv' = [srv EXCEPT !.pc = "stopped", !.http_listener = "closed",
                          !.http_server_error = TRUE]
    /\ UNCHANGED pipeline

\* server.rs:375-381: abort the accept loop and await its handle
AbortHttps ==
    /\ srv.pc = "stopped"
    /\ srv.https_server = "accepting"
    /\ srv' = [srv EXCEPT !.pc = "joined",
                          !.https_server = "aborted",
                          !.https_listener = "closed"]
    /\ UNCHANGED pipeline

\* Return that waits until no TLS connection is in its handshake or being served
Return_after_https ==
    /\ \/ srv.pc = "joined"
       \/ srv.pc = "stopped" /\ srv.https_server = "none"
    /\ \A c \in ConnIds : srv.https_conns[c] \notin {"handshaking", "serving"}
    /\ srv' = [srv EXCEPT !.pc = "returned", !.result = Ok]
    /\ UNCHANGED pipeline

\* Return that reports an error when the plain server ended without a signal
Return_err_without_signal ==
    /\ \/ srv.pc = "joined"
       \/ srv.pc = "stopped" /\ srv.https_server = "none"
    /\ srv' = [srv EXCEPT !.pc = "returned",
                          !.result = IF srv.signal THEN Ok ELSE Err("Hyper")]
    /\ UNCHANGED pipeline

\* server.rs:383-385
Return ==
    /\ \/ srv.pc = "joined"
       \/ srv.pc = "stopped" /\ srv.https_server = "none"
    /\ srv' = [srv EXCEPT !.pc = "returned", !.result = Ok]
    /\ UNCHANGED pipeline

\* the connection the TLS listener hands out next
next_https_conn == CHOOSE c \in ConnIds :
    srv.https_conns[c] = "none" /\ \A d \in ConnIds : d < c => srv.https_conns[d] # "none"

\* HttpsAccept whose loop ends at the first failed accept
HttpsAccept_break(c, ok) ==
    /\ Alive
    /\ srv.https_server = "accepting"
    /\ \E d \in ConnIds : srv.https_conns[d] = "none"
    /\ c = next_https_conn
    /\ srv' = IF ok THEN [srv EXCEPT !.https_conns[c] = "handshaking"]
              ELSE [srv EXCEPT !.https_conns[c] = "accept_failed",
                               !.https_server = "stopped"]
    /\ UNCHANGED pipeline

\* server.rs:295-312: one turn of the accept loop; a failed accept is logged
\* and the loop continues, an accepted stream gets a task of its own
HttpsAccept(c, ok) ==
    /\ Alive
    /\ srv.https_server = "accepting"
    /\ \E d \in ConnIds : srv.https_conns[d] = "none"
    /\ c = next_https_conn
    /\ srv' = [srv EXCEPT !.https_conns[c] =
                              IF ok THEN "handshaking" ELSE "accept_failed"]
    /\ UNCHANGED pipeline

\* server.rs:314-322, in the connection's task: the handshake completes or fails
HttpsHandshake(c, ok) ==
    /\ Alive
    /\ srv.https_conns[c] = "handshaking"
    /\ srv' = [srv EXCEPT !.https_conns[c] =
                              IF ok THEN "serving" ELSE "handshake_failed"]
    /\ UNCHANGED pipeline

\* server.rs:325-347, in the connection's task: serve_connection ends
HttpsServe(c, ok) ==
    /\ Alive
    /\ srv.https_conns[c] = "serving"
    /\ srv' = [srv EXCEPT !.https_conns[c] =
                              IF ok THEN "closed" ELSE "serve_failed"]
    /\ UNCHANGED pipeline

InitServer ==
    /\ InitPipeline({ <<>> }, {PlainConn})
    /\ call = NoCall
    /\ \E cert_env, key_env \in TlsEnvValues : srv = ServerStart(cert_env, key_env)

Start == \E tls_load_ok, https_bind_ok \in BOOLEAN : StartServers(tls_load_ok, https_bind_ok)

PlainAccepts == \E c \in ConnIds : HttpAccept(c)

PlainResponds == \E c \in ConnIds : HttpRespond(c)

ShutsDown == \E ctrl_c_ok \in BOOLEAN : Shutdown(ctrl_c_ok)

TlsAccepts == \E c \in ConnIds, ok \in BOOLEAN : HttpsAccept(c, ok)

TlsHandshakes == \E c \in ConnIds, ok \in BOOLEAN : HttpsHandshake(c, ok)

TlsServes == \E c \in ConnIds, ok \in BOOLEAN : HttpsServe(c, ok)

NextServer ==
    \/ Start
    \/ PlainAccepts
    \/ PlainResponds
    \/ ShutsDown
    \/ HttpDrained
    \/ HttpServerFails
    \/ AbortHttps
    \/ Return
    \/ TlsAccepts
    \/ TlsHandshakes
    \/ TlsServes

SpecServer == InitServer /\ [][NextServer]_vars

----------------------------------------------------------------------------
(* Properties of the request pipeline                                       *)

\* a request is being handled, or has just been answered
Handling == pc \in {"awaiting", "done"}

\* the request was handed to an outbound client
Forwarded == Handling /\ outbound # None

\* the backend answered and its response was relayed
Relayed == pc = "done" /\ backend_result # None /\ backend_result.ok

\* no pattern of the route table matches the path of the request
NoPatternMatches ==
    \A i \in 1..Len(app.router) : ~route_matches(app.router[i].pattern, req.path)

BackendAuthority(proxy) ==
    proxy.backend_host \o <<":">> \o to_string(proxy.backend_port)

\* C1: a request whose path matches no pattern of the route table (the empty
\* table included) is answered 404 with body "Route Not Found", and nothing
\* is dispatched to a backend for it.
C1_RouteNotFound ==
    (Handling /\ NoPatternMatches) =>
        /\ pc = "done"
        /\ response.status = 404
        /\ response.body = "Route Not Found"
        /\ outbound = None
        /\ dispatches.http_client = 0
        /\ dispatches.https_client = 0

C1_Witness ==
    /\ pc = "done"
    /\ Len(app.router) > 0
    /\ NoPatternMatches
    /\ response.status = 404

\* C2: the URI of the outbound request of a request matched to route R has
\* scheme R.backend_protocol and authority R.backend_host:R.backend_port.
C2_SchemeAndAuthority ==
    Forwarded =>
        /\ outbound.uri.scheme = matched.backend_protocol
        /\ outbound.uri.authority = BackendAuthority(matched)

C2_Witness ==
    /\ Forwarded
    /\ matched.backend_protocol = Https
    /\ outbound.uri.authority = <<"h", ":", "8", "0">>

\* C3: whatever headers the inbound request carries, the outbound request
\* carries none of connection, keep-alive, proxy-connection,
\* transfer-encoding, upgrade.
C3_NoHopByHop ==
    Forwarded =>
        \A n \in {"connection", "keep-alive", "proxy-connection",
                  "transfer-encoding", "upgrade"} : outbound.headers[n] = <<>>

C3_Witness ==
    /\ Forwarded
    /\ req.headers["upgrade"] # <<>>
    /\ req.headers["connection"] # <<>>
    /\ outbound.headers["accept"] # <<>>

\* C4: with preserve_host_header false the outbound host header is
\* R.backend_host:R.backend_port and the inbound host is not forwarded; with
\* preserve_host_header true the outbound host header is the inbound host
\* header (none if the request carries none; the last one if it carries
\* several).
C4_HostHeader ==
    Forwarded =>
        IF ~matched.preserve_host_header
        THEN outbound.headers["host"] = <<BackendAuthority(matched)>>
        ELSE IF Len(req.headers["host"]) <= 1
        THEN outbound.headers["host"] = req.headers["host"]
        ELSE outbound.headers["host"] = <<req.headers["host"][Len(req.headers["host"])]>>

C4_Witness ==
    /\ Forwarded
    /\ ~matched.preserve_host_header
    /\ req.headers["host"] # <<>>
    /\ outbound.headers["host"] = << <<"h", ":", "8", "0">> >>

\* C5 as claimed: every relayed response carries exactly one x-proxy-id
\* header, and its value is R.id.
C5_ProxyIdIsId ==
    Relayed => response.headers["x-proxy-id"] = <<matched.id>>

\* C5 as amended: every relayed response carries exactly one x-proxy-id
\* header, whatever x-proxy-id headers the backend sent; its value is R.id
\* when R.id is a legal header value and "unknown" when it is not.
C5_ProxyIdOnce ==
    Relayed =>
        /\ Len(response.headers["x-proxy-id"]) = 1
        /\ response.headers["x-proxy-id"][1] =
              IF \A i \in 1..Len(matched.id) : matched.id[i] \in HeaderValueChars
              THEN matched.id ELSE Unknown

C5_Witness ==
    /\ Relayed
    /\ Len(backend_result.response.headers["x-proxy-id"]) > 1
    /\ response.headers["x-proxy-id"] = << <<"x">> >>

\* C6: for a route with strip_listen_path false, the path of the outbound
\* URI is R.backend_path followed by the inbound path, and its query is the
\* inbound query (none when the inbound request has none).
C6_ForwardFullPath ==
    (Forwarded /\ ~matched.strip_listen_path) =>
        /\ outbound.uri.path = matched.backend_path \o req.path
        /\ outbound.uri.query = req.query

C6_Witness ==
    /\ Forwarded
    /\ ~matched.strip_listen_path
    /\ req.query = Some(<<"q", "=", "1">>)
    /\ outbound.uri.path = <<"/", "b", "/", "r", "/", "t">>

\* C7: for a definition with a parameterized listen_path (/r/:p, standing
\* for /rewrite/:path), backend_path /b and strip_listen_path true, the
\* request for /r/t is forwarded with outbound path /b/t.
C7_StripParameterized ==
    ( /\ Forwarded
      /\ matched.listen_path = <<"/", "r", "/", ":", "p">>
      /\ matched.backend_path = <<"/", "b">>
      /\ matched.strip_listen_path
      /\ req.path = <<"/", "r", "/", "t">> ) =>
        outbound.uri.path = <<"/", "b", "/", "t">>

\* C8: when the dispatch fails the response is 502, and a request is handed
\* to the outbound clients at most once.
C8_BadGatewayNoRetry ==
    /\ (pc = "done" /\ backend_result # None /\ ~backend_result.ok) =>
           response.status = 502
    /\ dispatches.http_client + dispatches.https_client <= 1

C8_Witness ==
    /\ pc = "done"
    /\ backend_result # None
    /\ ~backend_result.ok
    /\ backend_result.error = "timeout"
    /\ dispatches.http_client + dispatches.https_client = 1

\* C9: if the target URI string built for a matched request does not parse,
\* the response is 500 and neither outbound client is invoked.
C9_UriFailure ==
    (Handling /\ matched # None /\ ~ParseUri(uri_string(matched, req)).ok) =>
        /\ pc = "done"
        /\ response.status = 500
        /\ outbound = None
        /\ dispatches.http_client = 0
        /\ dispatches.https_client = 0

C9_Witness ==
    /\ pc = "done"
    /\ matched # None
    /\ matched.backend_host = <<"h", " ", "h">>
    /\ response.status = 500

\* the literal patterns of the table that are a prefix of the request path
\* at a segment boundary
LiteralPrefixes ==
    {i \in 1..Len(app.router) :
        /\ \A k \in 1..Len(app.router[i].pattern) : app.router[i].pattern[k] # ":"
        /\ starts_with(req.path, app.router[i].pattern)
        /\ \/ Len(req.path) = Len(app.router[i].pattern)
           \/ req.path[Len(app.router[i].pattern) + 1] = "/"}

\* C10: a request path that extends a literal listen_path is matched to that
\* definition, and of several literal listen_paths that are prefixes of the
\* path the longest is chosen.
C10_LongestPrefix ==
    (Handling /\ LiteralPrefixes # {}) =>
        /\ matched # None
        /\ \E i \in LiteralPrefixes :
              /\ matched = app.router[i].value
              /\ \A j \in LiteralPrefixes :
                    Len(app.router[j].pattern) <= Len(app.router[i].pattern)

\* the orders a list of n definitions can be inserted in
InsertionOrders(n) ==
    {f \in [1..n -> 1..n] : \A i, j \in 1..n : f[i] = f[j] => i = j}

Permute(defs, f) == [i \in 1..Len(defs) |-> defs[f[i]]]

\* the patterns of the route table without a parameter that equal the path
LiteralMatches ==
    {i \in 1..Len(app.router) :
        /\ \A k \in 1..Len(app.router[i].pattern) : app.router[i].pattern[k] # ":"
        /\ app.router[i].pattern = req.path}

\* C11: a path matched by a literal pattern and by a parameter pattern goes to
\* the literal pattern's definition, a pattern equal to the path is preferred
\* to any shorter one, and every insertion order of the same definitions
\* builds a table that answers every lookup alike.
C11_LiteralFirstAnyOrder ==
    /\ (Handling /\ LiteralMatches # {}) =>
           \E i \in LiteralMatches : matched = app.router[i].value
    /\ app.ok =>
           \A f \in InsertionOrders(Len(proxies)) :
               LET other == build_router(Permute(proxies, f))
               IN  /\ other.ok
                   /\ \A path \in RouteRequestPaths :
                          RouterAt(other.router, path) = RouterAt(app.router, path)

\* the table holds /a/:p before /a/b and shorter /a, and /a/b is requested
C11_Witness ==
    /\ Handling
    /\ Len(proxies) = 2
    /\ proxies[1].listen_path = <<"/", "a", "/", ":", "p">>
    /\ proxies[2].listen_path = <<"/", "a", "/", "b">>
    /\ req.path = <<"/", "a", "/", "b">>
    /\ matched = proxies[2]

\* two definitions of the list are registered under the same pattern
DuplicatePatterns ==
    \E i, j \in 1..Len(proxies) : i < j /\ route_path(proxies[i]) = route_path(proxies[j])

\* C12: a list in which two definitions normalize to the same pattern makes
\* build_router fail with the Routing error and yield no table, and
\* AppState::new hands the failure on, so no request is ever handled.
C12_DuplicateIsRoutingError ==
    DuplicatePatterns =>
        /\ ~app.ok
        /\ app.error = "Routing"
        /\ pc = "idle"

\* C13: every definition stored in a built route table has a listen_path
\* that begins with a slash.
C13_StoredListenPathSlash ==
    app.ok =>
        \A i \in 1..Len(app.router) :
            starts_with_char(app.router[i].value.listen_path, "/")

\* C14: the forwarded x-forwarded-for is the peer address of the client's
\* connection, preceded by the inbound value and ", " when the request
\* brought one.
C14_ForwardedForPeer ==
    Forwarded =>
        LET inbound == HeaderGet(req.headers, "x-forwarded-for")
        IN  outbound.headers["x-forwarded-for"] =
                << IF inbound.some
                   THEN inbound.value \o <<",", " ">> \o conn.remote_addr
                   ELSE conn.remote_addr >>

\* C15: the forwarded x-forwarded-proto is the scheme of the listener the
\* request was accepted on.
C15_ForwardedProtoListener ==
    Forwarded => outbound.headers["x-forwarded-proto"] = << conn.listener >>

\* C19: the https client accepts any certificate exactly when some definition
\* given to AppState::new has skip_certificate_verification set, and no step
\* taken afterwards changes the application state.
C19_SkipVerificationIffAny ==
    /\ [](app.ok =>
            (app.https_skip_verification <=>
                \E i \in 1..Len(proxies) : proxies[i].skip_certificate_verification))
    /\ [][app' = app]_vars

\* one definition of two asks to skip verification, and a request was answered
C19_Witness ==
    /\ app.ok
    /\ Len(proxies) = 2
    /\ ~proxies[1].skip_certificate_verification
    /\ proxies[2].skip_certificate_verification
    /\ app.https_skip_verification
    /\ pc = "done"

\* C20: a dispatch never awaits the backend longer than the matched
\* definition's connect deadline followed by its read deadline.
C20_BoundedBackendWait ==
    pc = "awaiting" =>
        waited <= matched.backend_connect_timeout_ms + matched.backend_read_timeout_ms

----------------------------------------------------------------------------
(* Properties of run_server                                                 *)

\* C16: once the interrupt signal is received the plain listener accepts no
\* connection; the TLS accept loop is aborted only when every plain request
\* that was in flight at the signal has its response; and run_server returns
\* only after that abort.
C16_ShutdownOrder ==
    srv.pc # "none" /\ srv.signal =>
        /\ srv.http_listener = "closed"
        /\ \A c \in ConnIds : ~ENABLED HttpAccept(c)
        /\ (srv.https_server = "aborted" \/ srv.pc \in {"stopped", "joined", "returned"}) =>
               \A c \in srv.in_flight_at_signal : srv.http_conns[c] = "responded"
        /\ srv.pc = "returned" => srv.https_server # "accepting"

\* the signal came with a request in flight while the TLS loop was accepting,
\* and run_server has returned
C16_Witness ==
    /\ srv.pc = "returned"
    /\ srv.signal
    /\ srv.in_flight_at_signal # {}
    /\ srv.https_server = "aborted"

FailedHttps == {"accept_failed", "handshake_failed", "serve_failed"}

\* C17: on the TLS listener a failed accept, handshake or connection leaves
\* the accept loop and every other connection as they were; whatever has
\* failed or is still in its handshake, the loop can accept the next
\* connection and every accepted connection can be handshaken and served.
C17_HttpsFailuresIsolated ==
    /\ [](srv.pc # "none" /\ Alive =>
            /\ (srv.https_server = "accepting"
                    /\ \E c \in ConnIds : srv.https_conns[c] = "none") =>
                   ENABLED HttpsAccept(next_https_conn, TRUE)
            /\ \A c \in ConnIds :
                   /\ srv.https_conns[c] = "handshaking" => ENABLED HttpsHandshake(c, TRUE)
                   /\ srv.https_conns[c] = "serving" => ENABLED HttpsServe(c, TRUE))
    /\ [][srv.pc # "none" =>
            \A c \in ConnIds :
                (srv.https_conns[c] \notin FailedHttps
                     /\ srv'.https_conns[c] \in FailedHttps) =>
                    /\ srv'.https_server = srv.https_server
                    /\ srv'.https_listener = srv.https_listener
                    /\ \A d \in ConnIds \ {c} : srv'.https_conns[d] = srv.https_conns[d]]_vars

\* after a failed accept, and with the second connection still in its
\* handshake, the third connection was accepted, handshaken and served
C17_Witness ==
    /\ srv.pc = "serving"
    /\ srv.https_server = "accepting"
    /\ srv.https_conns[1] \in FailedHttps
    /\ srv.https_conns[2] = "handshaking"
    /\ srv.https_conns[3] = "closed"

\* C18: with the certificate path or the key path absent, run_server reads no
\* TLS file, starts no TLS listener and does not fail: the plain listener is
\* opened, accepts connections and answers their requests.
C18_NoTlsWithoutBothPaths ==
    (srv.pc # "none" /\ (~srv.tls_cert_path.some \/ ~srv.tls_key_path.some)) =>
        /\ srv.pc # "failed"
        /\ ~srv.tls_files_read
        /\ srv.https_listener = "none"
        /\ srv.https_server = "none"
        /\ \A c \in ConnIds : srv.https_conns[c] = "none"
        /\ srv.pc = "serving" =>
               /\ srv.http_listener = "open"
               /\ \A c \in ConnIds :
                      /\ srv.http_conns[c] = "none" => ENABLED HttpAccept(c)
                      /\ srv.http_conns[c] = "in_flight" => ENABLED HttpRespond(c)

\* only the certificate path is set, and the plain listener answered a request
C18_Witness ==
    /\ srv.pc = "serving"
    /\ srv.tls_cert_path.some
    /\ ~srv.tls_key_path.some
    /\ \E c \in ConnIds : srv.http_conns[c] = "responded"

----------------------------------------------------------------------------
(* Further properties of the request pipeline                               *)

C24_RelayAllValues ==
    Relayed =>
        /\ response.status = backend_result.response.status
        /\ \A n \in HeaderNames :
               IF n \in HopByHopResponse THEN response.headers[n] = <<>>
               ELSE IF n = "x-proxy-id" THEN Len(response.headers[n]) = 1
               ELSE response.headers[n] = backend_result.response.headers[n]

\* C23: a definition whose backend_protocol is https is dispatched through
\* the https client to an https URI; any other backend_protocol is
\* dispatched through the plain client to an http URI.
C23_OtherProtocolIsHttp ==
    Forwarded =>
        IF matched.backend_protocol = Https
        THEN dispatches = [NoDispatch EXCEPT !.https_client = 1]
                 /\ outbound.uri.scheme = Https
        ELSE dispatches = [NoDispatch EXCEPT !.http_client = 1]
                 /\ outbound.uri.scheme = Http

\* C25: the outbound request has the method of the inbound request, and its
\* version is the one a fresh request carries, whatever the inbound version.
C25_VersionNotCopied ==
    Forwarded =>
        /\ outbound.method = req.method
        /\ outbound.version = default_version

----------------------------------------------------------------------------
(* Further properties of run_server                                         *)

\* C28: while the plain listener drains, the TLS accept loop still accepts;
\* aborting the loop and returning are possible whatever the TLS connections
\* are doing, and neither step changes any TLS connection.
C28_HttpsNotDrained ==
    /\ [](srv.pc # "none" =>
            /\ (srv.pc = "draining" /\ srv.https_server = "accepting"
                    /\ \E c \in ConnIds : srv.https_conns[c] = "none") =>
                   ENABLED HttpsAccept(next_https_conn, TRUE)
            /\ (srv.pc = "stopped" /\ srv.https_server = "accepting") => ENABLED AbortHttps
            /\ srv.pc = "joined" => ENABLED Return)
    /\ [][(srv.pc # "none" /\ srv'.pc \in {"joined", "returned"} /\ srv'.pc # srv.pc) =>
              srv'.https_conns = srv.https_conns]_vars

\* run_server has returned after the signal and the abort of the TLS loop
\* while a TLS connection was still being served
C28_Witness ==
    /\ srv.pc = "returned"
    /\ srv.signal
    /\ srv.https_server = "aborted"
    /\ \E c \in ConnIds : srv.https_conns[c] = "serving"

\* C29: when ctrl_c() fails, graceful shutdown of the plain listener begins
\* with no signal received, the TLS loop is aborted once the plain server
\* is done, and run_server returns Ok; it returns Ok as well after the
\* plain server ended with an error.
C29_ShutdownWithoutSignal ==
    srv.pc # "none" =>
        /\ (srv.pc = "draining" /\ ~srv.signal) =>
               /\ srv.http_listener = "closed"
               /\ \A c \in ConnIds : ~ENABLED HttpAccept(c)
               /\ (\A c \in ConnIds : srv.http_conns[c] # "in_flight") => ENABLED HttpDrained
        /\ (srv.pc = "stopped" /\ ~srv.signal /\ srv.https_server = "accepting") =>
               ENABLED AbortHttps
        /\ srv.pc = "returned" =>
               /\ srv.result = Ok
               /\ srv.https_server # "accepting"

\* ctrl_c() failed, no signal came, the TLS loop was aborted and run_server
\* returned Ok
C29_Witness ==
    /\ srv.pc = "returned"
    /\ ~srv.signal
    /\ ~srv.http_server_error
    /\ srv.https_server = "aborted"
    /\ srv.result = Ok

----------------------------------------------------------------------------
(* ServerConfig::from_env, config.rs:31-119                                 *)

\* env::var(name): Err(NotPresent), Err(NotUnicode), or Ok(value)
EnvNotPresent == [state |-> "NotPresent", value |-> <<>>]

EnvNotUnicode == [state |-> "NotUnicode", value |-> <<>>]

EnvPresent(v) == [state |-> "Present", value |-> v]

\* config.rs:21-23
default_http_port == 8080

\* config.rs:26-28
default_https_port == 8443

u16_MAX == 65535

RECURSIVE to_number(_)
to_number(digits) ==
    IF digits = <<>> THEN 0
    ELSE to_number(SliceTo(digits, Len(digits) - 1)) * 10
             + (CHOOSE d \in 0..9 : DigitChars[d + 1] = digits[Len(digits)])

\* str::parse::<u16>(): an optional "+", then digits, no overflow
parse_u16(s) ==
    LET digits == IF s # <<>> /\ s[1] = "+" THEN Tail(s) ELSE s
    IN  IF digits = <<>> \/ \E i \in 1..Len(digits) : digits[i] \notin Digits THEN None
        ELSE IF to_number(digits) > u16_MAX THEN None
        ELSE Some(to_number(digits))

\* config.rs:33-46 and 49-62
port_from_env(v, default) ==
    IF v.state = "Present" /\ v.value # <<>>
    THEN IF parse_u16(v.value).some THEN parse_u16(v.value).value ELSE default
    ELSE default

\* the paths for which PathBuf::exists() is true
ExistingPaths == { <<"p">>, <<"f">> }

ConfigPathWord == "PROXY_CONFIG_PATH"

\* from_env that does not look whether the file exists
from_env_no_exists_check(env) ==
    IF env.PROXY_CONFIG_PATH.state # "Present"
    THEN [ ok |-> FALSE, error |-> "Config",
           message |-> <<ConfigPathWord, " environment variable is required but not set">> ]
    ELSE [ ok |-> TRUE,
           value |-> [ http_port         |-> port_from_env(env.HTTP_PORT, default_http_port),
                       https_port        |-> port_from_env(env.HTTPS_PORT, default_https_port),
                       tls_cert_path     |-> None,
                       tls_key_path      |-> None,
                       proxy_config_path |-> env.PROXY_CONFIG_PATH.value ] ]

\* config.rs:31-119
from_env(env) ==
    LET http_port == port_from_env(env.HTTP_PORT, default_http_port)
        https_port == port_from_env(env.HTTPS_PORT, default_https_port)
        tls_cert_path == IF env.TLS_CERT_PATH.state = "Present"
                         THEN Some(env.TLS_CERT_PATH.value) ELSE None
        tls_key_path == IF env.TLS_KEY_PATH.state = "Present"
                        THEN Some(env.TLS_KEY_PATH.value) ELSE None
    IN  IF env.PROXY_CONFIG_PATH.state = "Present" THEN
            IF env.PROXY_CONFIG_PATH.value \notin ExistingPaths
            THEN [ ok |-> FALSE, error |-> "Config",
                   message |-> <<ConfigPathWord, " points to a non-existent file: ",
                                 env.PROXY_CONFIG_PATH.value>> ]
            ELSE [ ok |-> TRUE,
                   value |-> [ http_port         |-> http_port,
                               https_port        |-> https_port,
                               tls_cert_path     |-> tls_path_from_env(tls_cert_path),
                               tls_key_path      |-> tls_path_from_env(tls_key_path),
                               proxy_config_path |-> env.PROXY_CONFIG_PATH.value ] ]
        ELSE [ ok |-> FALSE, error |-> "Config",
               message |-> <<ConfigPathWord, " environment variable is required but not set">> ]

\* unset, not Unicode, empty, a port, a port with a sign, a word, an overflow
PortEnvValues ==
    { EnvNotPresent, EnvNotUnicode, EnvPresent(<<>>), EnvPresent(<<"9", "0">>),
      EnvPresent(<<"+", "9">>), EnvPresent(<<"x">>), EnvPresent(<<"6", "5", "5", "3", "6">>) }

PathEnvValues ==
    { EnvNotPresent, EnvNotUnicode, EnvPresent(<<>>), EnvPresent(<<"p">>), EnvPresent(<<"n">>) }

Environments ==
    [ HTTP_PORT         : PortEnvValues,
      HTTPS_PORT        : PortEnvValues,
      TLS_CERT_PATH     : {EnvNotPresent, EnvNotUnicode, EnvPresent(<<>>), EnvPresent(<<"f">>)},
      TLS_KEY_PATH      : {EnvNotPresent, EnvPresent(<<"f">>)},
      PROXY_CONFIG_PATH : PathEnvValues ]

\* the pipeline and the servers are not running while a call is examined
InitCall(fn, inputs) ==
    /\ InitPipeline({ <<>> }, {PlainConn})
    /\ srv = NoServer
    /\ \E args \in inputs : call = [fn |-> fn, args |-> args, result |-> None]

InitConfig == InitCall("from_env", Environments)

\* main.rs:45: from_env runs and returns
FromEnv ==
    /\ call.fn = "from_env"
    /\ call.result = None
    /\ call' = [call EXCEPT !.result = from_env(call.args)]
    /\ UNCHANGED <<proxies, app, pc, req, matched, outbound, dispatches, backend_result, response, conn, waited, srv>>

NextConfig == FromEnv

SpecConfig == InitConfig /\ [][NextConfig]_vars

\* from_env has returned
FromEnvReturned == call.fn = "from_env" /\ call.result # None

\* the value of a port variable is missing, empty or no u16
NoPort(v) == v.state # "Present" \/ v.value = <<>> \/ ~parse_u16(v.value).some

\* what from_env guarantees besides the condition under which it fails
ConfigOutcome(failing) ==
    LET env == call.args
        r == call.result
    IN  /\ ~r.ok <=> failing
        /\ ~r.ok =>
               /\ r.error = "Config"
               /\ \E i \in 1..Len(r.message) : r.message[i] = ConfigPathWord
        /\ r.ok =>
               /\ NoPort(env.HTTP_PORT) => r.value.http_port = default_http_port
               /\ NoPort(env.HTTPS_PORT) => r.value.https_port = default_https_port
               /\ env.TLS_CERT_PATH.state = "NotPresent" => r.value.tls_cert_path = None
               /\ env.TLS_KEY_PATH.state = "NotPresent" => r.value.tls_key_path = None

\* C21 as stated: from_env fails, with a Config error that mentions
\* PROXY_CONFIG_PATH, exactly when that variable is unset or names a path
\* that does not exist; ports fall back to 8080 / 8443 and unset TLS paths
\* give None.
C21_FailsIffUnsetOrMissing ==
    FromEnvReturned =>
        ConfigOutcome(\/ call.args.PROXY_CONFIG_PATH.state = "NotPresent"
                      \/ /\ call.args.PROXY_CONFIG_PATH.state = "Present"
                         /\ call.args.PROXY_CONFIG_PATH.value \notin ExistingPaths)

\* C21 amended: from_env fails, with a Config error that mentions
\* PROXY_CONFIG_PATH, exactly when env::var cannot read that variable (it is
\* unset or not valid Unicode) or it names a path that does not exist; ports
\* fall back to 8080 / 8443 and unset TLS paths give None.
C21_FailsIffUnreadableOrMissing ==
    FromEnvReturned =>
        ConfigOutcome(\/ call.args.PROXY_CONFIG_PATH.state # "Present"
                      \/ call.args.PROXY_CONFIG_PATH.value \notin ExistingPaths)

\* only PROXY_CONFIG_PATH is usable: the port variables hold a word and an
\* overflow, the TLS paths are unset, and from_env returned the defaults
C21_Witness ==
    /\ FromEnvReturned
    /\ call.args.HTTP_PORT = EnvPresent(<<"x">>)
    /\ call.args.HTTPS_PORT = EnvPresent(<<"6", "5", "5", "3", "6">>)
    /\ call.args.TLS_CERT_PATH = EnvNotPresent
    /\ call.args.TLS_KEY_PATH = EnvNotPresent
    /\ call.result.ok
    /\ call.result.value.http_port = default_http_port
    /\ call.result.value.https_port = default_https_port

----------------------------------------------------------------------------
(* path_to_forward on its own, server.rs:44-68: also for request paths that *)
(* extend the listen_path, which the router does not hand to it.            *)

PathDefinitions ==
    { ProxyDefinition(<<"x">>, lp, Http, <<"h">>, bp, strip, default_preserve_host_header) :
        lp \in { <<"/", "a">>, <<"/", "a", "/">>, <<"a">> },
        bp \in { <<"/">>, <<"/", "b">>, <<"/", "b", "/">> },
        strip \in BOOLEAN }

PathRequestPaths ==
    { <<"/", "a">>, <<"/", "a", "/">>, <<"/", "a", "/", "x">>, <<"/", "a", "x">>,
      <<"/", "a", "/", "/", "x">>, <<"/", "z">> }

InitPath ==
    InitCall("path_to_forward", [proxy : PathDefinitions, request_path : PathRequestPaths])

\* server.rs:44-68
PathToForward ==
    /\ call.fn = "path_to_forward"
    /\ call.result = None
    /\ call' = [call EXCEPT !.result =
                    Some(path_to_forward(call.args.proxy, call.args.request_path))]
    /\ UNCHANGED <<proxies, app, pc, req, matched, outbound, dispatches, backend_result, response, conn, waited, srv>>

NextPath == PathToForward

SpecPath == InitPath /\ [][NextPath]_vars

\* path_to_forward ran for a stripping definition whose listen_path begins the path
Stripped ==
    /\ call.fn = "path_to_forward"
    /\ call.result # None
    /\ call.args.proxy.strip_listen_path
    /\ starts_with(call.args.request_path, call.args.proxy.listen_path)

----------------------------------------------------------------------------
(* load_tls_config, tls.rs:23-75                                            *)

\* the PEM section labels rustls_pemfile tells apart
Pkcs8Key == "PRIVATE KEY"

RsaKey == "RSA PRIVATE KEY"

EcKey == "EC PRIVATE KEY"

CertificateItem == "CERTIFICATE"

\* the sections of `kind` in a file, in file order: what certs,
\* pkcs8_private_keys and rsa_private_keys collect
RECURSIVE items_of(_, _)
items_of(items, kind) ==
    IF items = <<>> THEN <<>>
    ELSE IF Head(items).kind = kind
    THEN <<Head(items).der>> \o items_of(Tail(items), kind)
    ELSE items_of(Tail(items), kind)

\* tls.rs:23-75; a file is missing, unreadable as PEM, or a list of sections;
\* with_single_cert refuses a key it cannot use
load_tls_config(cert_file, key_file) ==
    IF cert_file.state = "missing" THEN Err("TlsConfig")
    ELSE IF cert_file.state = "malformed" THEN Err("TlsConfig")
    ELSE IF key_file.state = "missing" THEN Err("TlsConfig")
    ELSE IF key_file.state = "malformed" THEN Err("TlsConfig")
    ELSE LET cert_chain == items_of(cert_file.items, CertificateItem)
             pkcs8_keys == items_of(key_file.items, Pkcs8Key)
             private_keys == IF pkcs8_keys = <<>>
                             THEN items_of(key_file.items, RsaKey)
                             ELSE pkcs8_keys
         IN  IF private_keys = <<>> THEN Err("TlsConfig")
             ELSE IF Head(private_keys) = "bad" THEN Err("TlsConfig")
             ELSE [ ok |-> TRUE, cert_chain |-> cert_chain,
                    private_key |-> Head(private_keys),
                    alpn_protocols |-> <<"h2", "http/1.1">> ]

PemFile(items) == [state |-> "ok", items |-> items]

MissingFile == [state |-> "missing", items |-> <<>>]

MalformedFile == [state |-> "malformed", items |-> <<>>]

CertFiles ==
    { MissingFile, MalformedFile, PemFile(<< [kind |-> CertificateItem, der |-> "c1"] >>) }

\* keys of each format, usable ones and one that rustls cannot use
KeyItems == [kind : {Pkcs8Key, RsaKey, EcKey, CertificateItem}, der : {"k1", "k2", "bad"}]

KeyFiles ==
    { MissingFile, MalformedFile } \cup { PemFile(items) : items \in ListsUpTo(KeyItems, MaxPemItems) }

InitTls == InitCall("load_tls_config", [cert_file : CertFiles, key_file : KeyFiles])

\* server.rs:279: load_tls_config runs and returns
LoadTlsConfig ==
    /\ call.fn = "load_tls_config"
    /\ call.result = None
    /\ call' = [call EXCEPT !.result =
                    load_tls_config(call.args.cert_file, call.args.key_file)]
    /\ UNCHANGED <<proxies, app, pc, req, matched, outbound, dispatches, backend_result, response, conn, waited, srv>>

NextTls == LoadTlsConfig

SpecTls == InitTls /\ [][NextTls]_vars

\* load_tls_config returned for two readable files whose keys are all usable
LoadedReadable ==
    /\ call.fn = "load_tls_config"
    /\ call.result # None
    /\ call.args.cert_file.state = "ok"
    /\ call.args.key_file.state = "ok"
    /\ \A i \in 1..Len(call.args.key_file.items) : call.args.key_file.items[i].der # "bad"

\* C26: the key is the first PKCS#8 key of the file, else its first RSA key,
\* else its first EC key, and load_tls_config fails, with a TlsConfig
\* error, only when the file holds a key of none of the three formats.
C26_KeyFormatsInOrder ==
    LoadedReadable =>
        LET items == call.args.key_file.items
            found == IF items_of(items, Pkcs8Key) # <<>> THEN items_of(items, Pkcs8Key)
                     ELSE IF items_of(items, RsaKey) # <<>> THEN items_of(items, RsaKey)
                     ELSE items_of(items, EcKey)
        IN  /\ call.result.ok <=> found # <<>>
            /\ call.result.ok => call.result.private_key = Head(found)
            /\ ~call.result.ok => call.result.error = "TlsConfig"

----------------------------------------------------------------------------
(* The shared AppState: run_server's accept loops and connection tasks      *)
(* interleaved with handle_request, which all hold the same Arc<AppState>   *)
(* (server.rs:245, 253, 258, 292, 309, 326).                                *)

\* the connection followed on each listener while requests are handled
SharedConnIds == {1}

SharedDefinitions ==
    { d \in RouteDefinitions :
        d.listen_path \in { <<"/", "a">>, <<"/", "a", "/", ":", "p">> } }

InitShared ==
    /\ InitPipeline(ListsUpTo(SharedDefinitions, MaxProxies), {PlainConn})
    /\ call = NoCall
    /\ \E cert_env, key_env \in TlsEnvValues : srv = ServerStart(cert_env, key_env)

SharedPlainAccepts == \E c \in SharedConnIds : HttpAccept(c)

SharedPlainResponds == \E c \in SharedConnIds : HttpRespond(c)

SharedTlsAccepts == \E c \in SharedConnIds, ok \in BOOLEAN : HttpsAccept(c, ok)

SharedTlsHandshakes == \E c \in SharedConnIds, ok \in BOOLEAN : HttpsHandshake(c, ok)

SharedTlsServes == \E c \in SharedConnIds, ok \in BOOLEAN : HttpsServe(c, ok)

NextShared ==
    \/ Start
    \/ SharedPlainAccepts
    \/ SharedPlainResponds
    \/ ShutsDown
    \/ HttpDrained
    \/ HttpServerFails
    \/ AbortHttps
    \/ Return
    \/ SharedTlsAccepts
    \/ SharedTlsHandshakes
    \/ SharedTlsServes
    \/ ServeRoute
    \/ BackendRespondsRoute
    \/ BackendFailsRoute
    \/ Respond

SpecShared == InitShared /\ [][NextShared]_vars

====
